---- MODULE Spec2Model ----
(***************************************************************************)
(* A model of the column-chart plotting scripts:                           *)
(*   - region-modification proportion/column_chart_plotting.py (and its    *)
(*     _style twin, whose computation is line-for-line the same):          *)
(*     parse_region, process_sites_file, the Set Reconciler and the        *)
(*     Normalizer of main;                                                 *)
(*   - rRNA_depletion/group_proportion_style.py: convert_gene_to_rna,      *)
(*     get_group_name, load_samples, plot_rna_distribution;                *)
(*   - rRNA_depletion/FDR_proportion_plotting.py: load_samples;            *)
(*   - main of the two depletion scripts.                                  *)
(* Strings are sequences of one-character strings, so that lower(),        *)
(* strip(), startswith(), split(':') and the substring test are computed.  *)
(* Every component has its own specification; the variables of the other   *)
(* components stay at their idle value.                                    *)
(***************************************************************************)
EXTENDS Integers, Sequences, FiniteSets, TLC

VARIABLES
    pc,                 \* position of the running script
    \* ---- Set Reconciler and Normalizer (region scripts, main) ----
    sites_37_regions,   \* {site id: region} of file1
    sites_37_rna,       \* {site id: parent RNA id} of file1
    sites_45_regions,   \* {site id: region} of file2
    sites_45_rna,       \* {site id: parent RNA id} of file2
    shared_rna,
    unique_rna_37,
    unique_rna_45,
    shared_site_37,
    shared_site_45,
    shared_mod_sites,
    layer_counts,       \* layer -> <<count per region of region_order>>
    normalized,         \* layer -> <<percentage per region of region_order>>
    \* ---- Normalizer of the grouped depletion script (plot_rna_distribution) ----
    all_data,           \* the rows handed over by main: <<group, rna_type>> -> number of rows
    counts,             \* <<group, rna_type>> -> [count, percentage], pairs with rows only
    pivot_data,         \* group -> (rna_type -> percentage)
    \* ---- Taxonomy Mapper (convert_gene_to_rna, parse_region) ----
    mapper,             \* the function applied
    gene_type,          \* its arguments
    gene_name,
    gene_type_alt,      \* the same labels in another letter case
    gene_name_alt,
    category,           \* what the mapper returns for the arguments
    category_alt,       \* what it returns for the other letter case
    \* ---- Group Aggregator (get_group_name) ----
    grouping_rules,     \* the ordered rule table (a global of the script)
    file_name,          \* the stem given to get_group_name
    folder_type,        \* "total" or "removed"
    target_group,       \* what get_group_name returns, or "ValueError"
    \* ---- Site Loader (load_samples of the two depletion scripts) ----
    load_variant,       \* "grouped" (group_proportion_style) or "FDR"
    INCLUDE_UNKNOWN_TYPES,
    folder,             \* "missing", "not_dir" or "dir"
    files,              \* the files of the glob, in its order
    file_idx,           \* the file the loop is at
    group_data,         \* <<[group, dfs]>> in insertion order
    skipped,            \* stems of the files skipped with a warning
    filter_log,         \* the filtered counts printed, one per filtered file
    error,              \* the exception load_samples raises
    final_df,           \* the rows load_samples returns
    \* ---- main of the two depletion scripts ----
    total_rna_dir,      \* the folder given as total_rna_dir: [folder, files]
    remove_rna_dir,     \* the folder given as remove_rna_dir
    total_rna_data,     \* what the first load_samples returned
    remove_rna_data,    \* what the second load_samples returned
    stages,             \* the stages main has entered, in order
    printed,            \* the error printed by the except clause
    chart_saved,        \* plt.savefig has written the chart
    \* ---- the region scripts' main run a second time, inputs exchanged ----
    first_counts,       \* layer_counts of the first run
    swapped,            \* the second run is under way
    \* ---- process_sites_file (region scripts) ----
    file1_rows,         \* the rows of file1, in file order
    file2_rows          \* the rows of file2

regionVars == <<sites_37_regions, sites_37_rna, sites_45_regions, sites_45_rna,
                shared_rna, unique_rna_37, unique_rna_45, shared_site_37,
                shared_site_45, shared_mod_sites, layer_counts, normalized>>

plotVars == <<all_data, counts, pivot_data>>

taxVars == <<mapper, gene_type, gene_name, gene_type_alt, gene_name_alt,
             category, category_alt>>

groupVars == <<grouping_rules, file_name, folder_type, target_group>>

loadVars == <<load_variant, INCLUDE_UNKNOWN_TYPES, folder, files, file_idx,
              group_data, skipped, filter_log, error, final_df>>

mainVars == <<total_rna_dir, remove_rna_dir, total_rna_data, remove_rna_data,
              stages, printed, chart_saved>>

swapVars == <<first_counts, swapped>>

processVars == <<file1_rows, file2_rows>>

vars == <<pc, regionVars, plotVars, taxVars, groupVars, loadVars, mainVars,
          swapVars, processVars>>

\* what the actions of one component leave alone
notRegion == <<plotVars, taxVars, groupVars, loadVars, mainVars, swapVars, processVars>>
notPlot == <<regionVars, taxVars, groupVars, loadVars, mainVars, swapVars, processVars>>
notTax == <<regionVars, plotVars, groupVars, loadVars, mainVars, swapVars, processVars>>
notGroup == <<regionVars, plotVars, taxVars, loadVars, mainVars, swapVars, processVars>>
notLoad == <<regionVars, plotVars, taxVars, mainVars, swapVars, processVars>>
notMain == <<regionVars, plotVars, taxVars, swapVars, processVars>>

(***************************************************************************)
(* Bounds of the model.                                                    *)
(***************************************************************************)
\* sites of the two input tables together
MaxSites == 3
\* rows of the table handed to plot_rna_distribution
MaxPlotRows == 3
\* capital letters in a label given to the Taxonomy Mapper
MaxUpper == 2
\* files of the folder given to load_samples
MaxFiles == 2

(***************************************************************************)
(* Generic helpers.                                                        *)
(***************************************************************************)
Range(f) == {f[x] : x \in DOMAIN f}

\* A percentage is kept as the exact fraction num/den of the value the float
\* division approximates (the rounding of the division, a few units in the
\* last place, is not modelled); nan marks pandas' missing value.
Frac(n, d) == [nan |-> FALSE, num |-> n, den |-> d]
FracZero == Frac(0, 1)
NaN == [nan |-> TRUE, num |-> 0, den |-> 1]

(***************************************************************************)
(* Region scripts: site identifiers.                                       *)
(***************************************************************************)
RnaIds == {"T1", "T2", "T3"}
\* regions the input sites carry ("Other" is a result of parse_region that
\* region_order omits)
InputRegions == {"ncRNA", "CDS", "Other"}

\* f"{row['Chr']}:{row['Sites']}"
SiteId(chr, pos) == <<chr, ":", pos>>
\* two chromosomes with the same position, and one chromosome with two
SiteIds == {SiteId("c1", "10"), SiteId("c2", "10"), SiteId("c1", "20")}

\* s.split(':')[-1]: the text after the last ':' of s
RECURSIVE SplitLast(_)
SplitLast(s) ==
    IF s = <<>> THEN <<>>
    ELSE IF \E i \in DOMAIN Tail(s) : Tail(s)[i] = ":" THEN SplitLast(Tail(s))
    ELSE IF Head(s) = ":" THEN Tail(s)
    ELSE s

region_order == <<"ncRNA", "3' UTR", "Intergenic", "5' UTR", "CDS">>
Layers == {"mod_unique37", "unique_37", "shared", "unique_45", "mod_unique45"}

\* sites_37_regions.get(s, '')
Get(d, k, default) == IF k \in DOMAIN d THEN d[k] ELSE default

(***************************************************************************)
(* main, step 1: the RNA sets (lines 70-76).                               *)
(***************************************************************************)
rna_37 == Range(sites_37_rna)
rna_45 == Range(sites_45_rna)

\* a slip: only the RNAs of sites in a region of region_order take part
SharedRna_CountedOnly ==
    {sites_37_rna[s] : s \in {t \in DOMAIN sites_37_regions :
                                 sites_37_regions[t] \in Range(region_order)}}
        \cap {sites_45_rna[s] : s \in {t \in DOMAIN sites_45_regions :
                                     sites_45_regions[t] \in Range(region_order)}}
SharedRna == rna_37 \cap rna_45
\* a slip: the RNAs of condition A, those of condition B not taken away
UniqueRna37_NoSubtract == rna_37
UniqueRna37 == rna_37 \ rna_45
UniqueRna45 == rna_45 \ rna_37

SharedSites(regions, rna, shared) == {s \in DOMAIN regions : rna[s] \in shared}

ClassifyRna ==
    /\ pc = "start"
    /\ shared_rna' = SharedRna
    /\ unique_rna_37' = UniqueRna37
    /\ unique_rna_45' = UniqueRna45
    /\ shared_site_37' = SharedSites(sites_37_regions, sites_37_rna, SharedRna)
    /\ shared_site_45' = SharedSites(sites_45_regions, sites_45_rna, SharedRna)
    /\ pc' = "classified"
    /\ UNCHANGED notRegion
    /\ UNCHANGED <<sites_37_regions, sites_37_rna, sites_45_regions, sites_45_rna,
                   shared_mod_sites, layer_counts, normalized>>

(***************************************************************************)
(* main, the nested loop that fills shared_mod_sites (lines 93-99).        *)
(***************************************************************************)
\* a slip: the position alone decides, the category is not compared
SiteMatch_PositionOnly(s37, s45) == SplitLast(s45) = SplitLast(s37)
SiteMatch(s37, s45) ==
    /\ SplitLast(s45) = SplitLast(s37)
    /\ sites_37_regions[s37] = sites_45_regions[s45]

RECURSIVE SharedModLoop(_, _)
SharedModLoop(pairs, acc) ==
    IF pairs = {} THEN acc
    ELSE LET p == CHOOSE q \in pairs : TRUE
         IN SharedModLoop(pairs \ {p},
                          IF SiteMatch(p[1], p[2]) THEN acc \cup {p[1], p[2]} ELSE acc)

FindSharedMod ==
    /\ pc = "classified"
    /\ shared_mod_sites' = SharedModLoop(shared_site_37 \X shared_site_45, {})
    /\ pc' = "matched"
    /\ UNCHANGED notRegion
    /\ UNCHANGED <<sites_37_regions, sites_37_rna, sites_45_regions, sites_45_rna,
                   shared_rna, unique_rna_37, unique_rna_45, shared_site_37,
                   shared_site_45, layer_counts, normalized>>

(***************************************************************************)
(* main, the per-region lists of the five strata (lines 102-125).          *)
(***************************************************************************)
mod_unique45_sites(region) ==
    {s \in DOMAIN sites_45_regions :
        sites_45_regions[s] = region /\ sites_45_rna[s] \in unique_rna_45}

unique_45_sites(region) ==
    {s \in shared_site_45 : sites_45_regions[s] = region /\ s \notin shared_mod_sites}

shared_sites(region) ==
    {s \in shared_mod_sites : Get(sites_37_regions, s, "") = region}

unique_37_sites(region) ==
    {s \in shared_site_37 : sites_37_regions[s] = region /\ s \notin shared_mod_sites}

mod_unique37_sites(region) ==
    {s \in DOMAIN sites_37_regions :
        sites_37_regions[s] = region /\ sites_37_rna[s] \in unique_rna_37}

StratumSites(layer, region) ==
    CASE layer = "mod_unique45" -> mod_unique45_sites(region)
      [] layer = "unique_45"    -> unique_45_sites(region)
      [] layer = "shared"       -> shared_sites(region)
      [] layer = "unique_37"    -> unique_37_sites(region)
      [] layer = "mod_unique37" -> mod_unique37_sites(region)

CountLayers ==
    /\ pc = "matched"
    /\ layer_counts' = [layer \in Layers |->
            [idx \in DOMAIN region_order |->
                Cardinality(StratumSites(layer, region_order[idx]))]]
    /\ pc' = "counted"
    /\ UNCHANGED notRegion
    /\ UNCHANGED <<sites_37_regions, sites_37_rna, sites_45_regions, sites_45_rna,
                   shared_rna, unique_rna_37, unique_rna_45, shared_site_37,
                   shared_site_45, shared_mod_sites, normalized>>

(***************************************************************************)
(* main, step 3: the Normalizer (lines 127-137).                           *)
(***************************************************************************)
max_height == 100

RECURSIVE SumOver(_, _)
SumOver(f, keys) ==
    IF keys = {} THEN 0
    ELSE LET k == CHOOSE x \in keys : TRUE IN f[k] + SumOver(f, keys \ {k})

RegionTotal(lc, idx) == SumOver([l \in Layers |-> lc[l][idx]], Layers)

NormalizeCell(count, total) ==
    IF total = 0 THEN FracZero ELSE Frac(count * max_height, total)

Normalize ==
    /\ pc = "counted"
    /\ normalized' = [layer \in Layers |->
            [idx \in DOMAIN region_order |->
                NormalizeCell(layer_counts[layer][idx], RegionTotal(layer_counts, idx))]]
    /\ pc' = "normalized"
    /\ UNCHANGED notRegion
    /\ UNCHANGED <<sites_37_regions, sites_37_rna, sites_45_regions, sites_45_rna,
                   shared_rna, unique_rna_37, unique_rna_45, shared_site_37,
                   shared_site_45, shared_mod_sites, layer_counts>>

(***************************************************************************)
(* Idle values: the state of a component while another one runs.           *)
(***************************************************************************)
NoCounts == [layer \in Layers |-> [idx \in DOMAIN region_order |-> 0]]
NoPercent == [layer \in Layers |-> <<>>]

RegionIdle ==
    /\ sites_37_regions = <<>>
    /\ sites_37_rna = <<>>
    /\ sites_45_regions = <<>>
    /\ sites_45_rna = <<>>
    /\ shared_rna = {}
    /\ unique_rna_37 = {}
    /\ unique_rna_45 = {}
    /\ shared_site_37 = {}
    /\ shared_site_45 = {}
    /\ shared_mod_sites = {}
    /\ layer_counts = NoCounts
    /\ normalized = NoPercent

PlotIdle ==
    /\ all_data = <<>>
    /\ counts = <<>>
    /\ pivot_data = <<>>

TaxIdle ==
    /\ mapper = ""
    /\ gene_type = <<>>
    /\ gene_name = <<>>
    /\ gene_type_alt = <<>>
    /\ gene_name_alt = <<>>
    /\ category = ""
    /\ category_alt = ""

GroupIdle ==
    /\ grouping_rules = <<>>
    /\ file_name = <<>>
    /\ folder_type = ""
    /\ target_group = ""

LoadIdle ==
    /\ load_variant = ""
    /\ INCLUDE_UNKNOWN_TYPES = FALSE
    /\ folder = ""
    /\ files = <<>>
    /\ file_idx = 0
    /\ group_data = <<>>
    /\ skipped = <<>>
    /\ filter_log = <<>>
    /\ error = <<>>
    /\ final_df = <<>>

MainIdle ==
    /\ total_rna_dir = <<>>
    /\ remove_rna_dir = <<>>
    /\ total_rna_data = <<>>
    /\ remove_rna_data = <<>>
    /\ stages = <<>>
    /\ printed = <<>>
    /\ chart_saved = FALSE

SwapIdle ==
    /\ first_counts = <<>>
    /\ swapped = FALSE

ProcessIdle ==
    /\ file1_rows = <<>>
    /\ file2_rows = <<>>

(***************************************************************************)
(* Specification of the region scripts' main: the two site tables are any  *)
(* pair of dictionaries process_sites_file can return (each site id once   *)
(* per file, a region and an RNA id for every site).                       *)
(***************************************************************************)
SiteTables(n) ==
    UNION {[S -> InputRegions \X RnaIds] :
              S \in {T \in SUBSET SiteIds : Cardinality(T) <= n}}

InitRegion ==
    /\ pc = "start"
    /\ \E ta \in SiteTables(MaxSites) :
         \E tb \in SiteTables(MaxSites - Cardinality(DOMAIN ta)) :
            /\ sites_37_regions = [s \in DOMAIN ta |-> ta[s][1]]
            /\ sites_37_rna = [s \in DOMAIN ta |-> ta[s][2]]
            /\ sites_45_regions = [s \in DOMAIN tb |-> tb[s][1]]
            /\ sites_45_rna = [s \in DOMAIN tb |-> tb[s][2]]
    /\ shared_rna = {}
    /\ unique_rna_37 = {}
    /\ unique_rna_45 = {}
    /\ shared_site_37 = {}
    /\ shared_site_45 = {}
    /\ shared_mod_sites = {}
    /\ layer_counts = NoCounts
    /\ normalized = NoPercent
    /\ PlotIdle
    /\ TaxIdle
    /\ GroupIdle
    /\ LoadIdle
    /\ MainIdle
    /\ SwapIdle
    /\ ProcessIdle

NextRegion ==
    \/ ClassifyRna
    \/ FindSharedMod
    \/ CountLayers
    \/ Normalize

SpecRegion == InitRegion /\ [][NextRegion]_vars

(***************************************************************************)
(* The region scripts' main run twice, the second time with file1 and      *)
(* file2 exchanged.  Each table holds up to MaxPerTable sites, so that two *)
(* transcripts can both be shared.                                         *)
(***************************************************************************)
\* sites of one input table
MaxPerTable == 2

PairRegions == {"ncRNA", "CDS"}
PairRnaIds == {"T1", "T2"}

PairTables(n) ==
    UNION {[S -> PairRegions \X PairRnaIds] :
              S \in {T \in SUBSET SiteIds : Cardinality(T) <= n}}

\* main(file2, file1) after main(file1, file2): the counts of the first
\* call are kept, everything main computes starts afresh
SwapInputs ==
    /\ pc = "counted"
    /\ ~swapped
    /\ first_counts' = layer_counts
    /\ swapped' = TRUE
    /\ sites_37_regions' = sites_45_regions
    /\ sites_37_rna' = sites_45_rna
    /\ sites_45_regions' = sites_37_regions
    /\ sites_45_rna' = sites_37_rna
    /\ shared_rna' = {}
    /\ unique_rna_37' = {}
    /\ unique_rna_45' = {}
    /\ shared_site_37' = {}
    /\ shared_site_45' = {}
    /\ shared_mod_sites' = {}
    /\ layer_counts' = NoCounts
    /\ normalized' = NoPercent
    /\ pc' = "start"
    /\ UNCHANGED <<plotVars, taxVars, groupVars, loadVars, mainVars, processVars>>

InitSwap ==
    /\ pc = "start"
    /\ \E ta \in PairTables(MaxPerTable) :
         \E tb \in PairTables(MaxPerTable) :
            /\ sites_37_regions = [s \in DOMAIN ta |-> ta[s][1]]
            /\ sites_37_rna = [s \in DOMAIN ta |-> ta[s][2]]
            /\ sites_45_regions = [s \in DOMAIN tb |-> tb[s][1]]
            /\ sites_45_rna = [s \in DOMAIN tb |-> tb[s][2]]
    /\ shared_rna = {}
    /\ unique_rna_37 = {}
    /\ unique_rna_45 = {}
    /\ shared_site_37 = {}
    /\ shared_site_45 = {}
    /\ shared_mod_sites = {}
    /\ layer_counts = NoCounts
    /\ normalized = NoPercent
    /\ first_counts = NoCounts
    /\ swapped = FALSE
    /\ PlotIdle
    /\ TaxIdle
    /\ GroupIdle
    /\ LoadIdle
    /\ MainIdle
    /\ ProcessIdle

NextSwap ==
    \/ ClassifyRna
    \/ FindSharedMod
    \/ CountLayers
    \/ Normalize
    \/ SwapInputs

SpecSwap == InitSwap /\ [][NextSwap]_vars

(***************************************************************************)
(* Grouped depletion script: plot_rna_distribution (lines 219-267), the    *)
(* Normalizer of the depletion variant.  all_data is the concatenation of  *)
(* the two loaded folders: every row carries the target group of a         *)
(* grouping rule and a converted RNA type.                                 *)
(***************************************************************************)
group_order == <<"OD600=0.3(-rRNA)", "OD600=1(-rRNA)", "OD600=0.3", "OD600=1">>
KeptRnaTypes == {"mRNA", "ncRNA", "rRNA"}
PlotCells == Range(group_order) \X KeptRnaTypes

\* the tables of up to n rows, as row counts per <<group, rna_type>>
RECURSIVE PlotTables(_)
PlotTables(n) ==
    IF n = 0 THEN {[c \in PlotCells |-> 0]}
    ELSE LET prev == PlotTables(n - 1)
         IN prev \cup {[t EXCEPT ![c] = @ + 1] : t \in prev, c \in PlotCells}

\* all_data.groupby(["group", "rna_type"]).size(): the pairs that have rows
GroupSizes(data) == {c \in DOMAIN data : data[c] > 0}

\* counts.groupby("group")["count"].transform("sum")
GroupTotal(data, group) ==
    SumOver([c \in DOMAIN data |-> data[c]], {c \in DOMAIN data : c[1] = group})

\* (counts["count"] / total_counts) * 100
Percentage(data, c) == Frac(data[c] * 100, GroupTotal(data, c[1]))

GroupCount ==
    /\ pc = "plot_start"
    /\ counts' = [c \in GroupSizes(all_data) |->
                    [count |-> all_data[c], percentage |-> Percentage(all_data, c)]]
    /\ pc' = "plot_counted"
    /\ UNCHANGED <<all_data, pivot_data>>
    /\ UNCHANGED notPlot

\* counts.pivot(index="group", columns="rna_type", values="percentage").fillna(0)
PivotIndex(cnt) == {c[1] : c \in DOMAIN cnt}
PivotColumns(cnt) == {c[2] : c \in DOMAIN cnt}

Pivot ==
    /\ pc = "plot_counted"
    /\ pivot_data' = [g \in PivotIndex(counts) |->
                        [t \in PivotColumns(counts) |->
                            IF <<g, t>> \in DOMAIN counts
                            THEN counts[<<g, t>>].percentage
                            ELSE FracZero]]
    /\ pc' = "pivoted"
    /\ UNCHANGED <<all_data, counts>>
    /\ UNCHANGED notPlot

\* pivot_data.reindex(group_order): a group without a row gets a row of NaN
ReindexRow(pivot, columns, group) ==
    IF group \in DOMAIN pivot THEN pivot[group] ELSE [t \in columns |-> NaN]

Reindex ==
    /\ pc = "pivoted"
    /\ pivot_data' = [g \in Range(group_order) |->
                        ReindexRow(pivot_data, PivotColumns(counts), g)]
    /\ pc' = "reindexed"
    /\ UNCHANGED <<all_data, counts>>
    /\ UNCHANGED notPlot

InitPlot ==
    /\ pc = "plot_start"
    /\ all_data \in {t \in PlotTables(MaxPlotRows) : \E c \in PlotCells : t[c] > 0}
    /\ counts = <<>>
    /\ pivot_data = <<>>
    /\ RegionIdle
    /\ TaxIdle
    /\ GroupIdle
    /\ LoadIdle
    /\ MainIdle
    /\ SwapIdle
    /\ ProcessIdle

NextPlot ==
    \/ GroupCount
    \/ Pivot
    \/ Reindex

SpecPlot == InitPlot /\ [][NextPlot]_vars

(***************************************************************************)
(* Strings: a string is the sequence of its characters.                    *)
(***************************************************************************)
LowerLetters == <<"a", "b", "c", "d", "e", "f", "g", "h", "i", "j", "k", "l", "m", "n", "o", "p", "q", "r", "s", "t", "u", "v", "w", "x", "y", "z">>
UpperLetters == <<"A", "B", "C", "D", "E", "F", "G", "H", "I", "J", "K", "L", "M", "N", "O", "P", "Q", "R", "S", "T", "U", "V", "W", "X", "Y", "Z">>
Whitespace == {" ", "\t"}

\* str.lower(), one character
LowerChar(c) ==
    IF \E i \in DOMAIN UpperLetters : UpperLetters[i] = c
    THEN LowerLetters[CHOOSE i \in DOMAIN UpperLetters : UpperLetters[i] = c]
    ELSE c

\* str.upper(), one character (used to write the inputs)
UpperChar(c) ==
    IF \E i \in DOMAIN LowerLetters : LowerLetters[i] = c
    THEN UpperLetters[CHOOSE i \in DOMAIN LowerLetters : LowerLetters[i] = c]
    ELSE c

\* str.lower()
Lower(s) == [i \in DOMAIN s |-> LowerChar(s[i])]
Upper(s) == [i \in DOMAIN s |-> UpperChar(s[i])]

\* str.strip()
RECURSIVE StripLeft(_)
StripLeft(s) ==
    IF s # <<>> /\ Head(s) \in Whitespace THEN StripLeft(Tail(s)) ELSE s
RECURSIVE StripRight(_)
StripRight(s) ==
    IF s # <<>> /\ s[Len(s)] \in Whitespace
    THEN StripRight(SubSeq(s, 1, Len(s) - 1))
    ELSE s
Strip(s) == StripRight(StripLeft(s))

\* pattern in s
Contains(pattern, s) ==
    \E k \in 0..(Len(s) - Len(pattern)) :
        \A i \in DOMAIN pattern : s[k + i] = pattern[i]

\* s.startswith(prefix)
StartsWith(s, prefix) ==
    /\ Len(prefix) <= Len(s)
    /\ \A i \in DOMAIN prefix : s[i] = prefix[i]

(***************************************************************************)
(* Cell values of a table: a string, pandas' NaN, None, or a number (a     *)
(* column of numbers is read as numbers).                                  *)
(***************************************************************************)
StrVal(s) == [kind |-> "str", text |-> s]
NaNVal == [kind |-> "nan", text |-> <<>>]
NoneVal == [kind |-> "none", text |-> <<>>]
NumVal(s) == [kind |-> "num", text |-> s]

\* pd.isna(v)
IsNa(v) == v.kind \in {"nan", "none"}

\* str(v)
Str(v) ==
    CASE v.kind = "nan"  -> <<"n", "a", "n">>
      [] v.kind = "none" -> <<"N", "o", "n", "e">>
      [] OTHER           -> v.text

(***************************************************************************)
(* Taxonomy Mapper, depletion variant: gene_type_to_rna and                *)
(* convert_gene_to_rna (group_proportion_style.py, lines 26-102).          *)
(***************************************************************************)
gene_type_to_rna ==
    { <<<<"p", "r", "o", "t", "e", "i", "n", "_", "c", "o", "d", "i", "n", "g">>, "mRNA">>,
      <<<<"t", "r", "n", "a">>, "ncRNA">>,
      <<<<"t", "r", "n", "a", "_", "p", "s", "e", "u", "d", "o", "g", "e", "n", "e">>, "ncRNA">>,
      <<<<"r", "r", "n", "a", "_", "g", "e", "n", "e">>, "rRNA">>,
      <<<<"r", "r", "n", "a", "_", "p", "s", "e", "u", "d", "o", "g", "e", "n", "e">>, "ncRNA">>,
      <<<<"m", "i", "r", "n", "a">>, "ncRNA">>,
      <<<<"m", "i", "r", "n", "a", "_", "p", "s", "e", "u", "d", "o", "g", "e", "n", "e">>, "ncRNA">>,
      <<<<"s", "n", "r", "n", "a">>, "ncRNA">>,
      <<<<"s", "n", "r", "n", "a", "_", "p", "s", "e", "u", "d", "o", "g", "e", "n", "e">>, "ncRNA">>,
      <<<<"s", "n", "o", "r", "n", "a">>, "ncRNA">>,
      <<<<"s", "n", "o", "r", "n", "a", "_", "p", "s", "e", "u", "d", "o", "g", "e", "n", "e">>, "ncRNA">>,
      <<<<"l", "n", "c", "r", "n", "a">>, "ncRNA">>,
      <<<<"l", "i", "n", "c", "r", "n", "a">>, "ncRNA">>,
      <<<<"l", "n", "c", "r", "n", "a", "_", "p", "s", "e", "u", "d", "o", "g", "e", "n", "e">>, "ncRNA">>,
      <<<<"p", "i", "r", "n", "a">>, "ncRNA">>,
      <<<<"s", "c", "r", "n", "a">>, "ncRNA">>,
      <<<<"c", "i", "r", "c", "r", "n", "a">>, "ncRNA">>,
      <<<<"s", "i", "r", "n", "a">>, "ncRNA">>,
      <<<<"v", "a", "u", "l", "t", "r", "n", "a">>, "ncRNA">>,
      <<<<"y", "r", "n", "a">>, "ncRNA">>,
      <<<<"s", "c", "a", "r", "n", "a">>, "ncRNA">>,
      <<<<"7", "s", "k", "r", "n", "a">>, "ncRNA">>,
      <<<<"r", "n", "a", "s", "e", "_", "p", "_", "r", "n", "a">>, "ncRNA">>,
      <<<<"r", "n", "a", "s", "e", "_", "m", "r", "p", "_", "r", "n", "a">>, "ncRNA">> }

\* dict.get(key, default)
DictGet(dict, key, default) ==
    IF \E e \in dict : e[1] = key
    THEN (CHOOSE e \in dict : e[1] = key)[2]
    ELSE default

\* a slip: the label is looked up as it is written, not lowered
ConvertGeneToRna_CaseSensitive(type_label, default) ==
    IF IsNa(type_label) THEN default
    ELSE IF type_label.kind # "str" THEN "AttributeError"
    ELSE IF Strip(type_label.text) = <<>> THEN default
    ELSE DictGet(gene_type_to_rna, Strip(type_label.text), default)

\* convert_gene_to_rna(gene_type, default="unknown"); a value that is neither
\* missing nor a string has no strip(): the call raises AttributeError
ConvertGeneToRna(type_label, default) ==
    IF IsNa(type_label) THEN default
    ELSE IF type_label.kind # "str" THEN "AttributeError"
    ELSE IF Strip(type_label.text) = <<>> THEN default
    ELSE DictGet(gene_type_to_rna, Lower(Strip(type_label.text)), default)

(***************************************************************************)
(* Taxonomy Mapper, region variant: parse_region (lines 11-28).            *)
(***************************************************************************)
NcRnaGeneTypes ==
    { <<"t", "r", "n", "a">>,
      <<"r", "r", "n", "a">>,
      <<"n", "c", "r", "n", "a">>,
      <<"n", "o", "n", "-", "c", "o", "d", "i", "n", "g">>,
      <<"p", "s", "e", "u", "d", "o", "g", "e", "n", "e">> }

\* a slip: "downstream" is tested before "upstream"
ParseRegion_DownstreamFirst(type_label, name_label) ==
    LET t == Lower(Str(type_label))
        n == Lower(Str(name_label))
    IN IF Contains(<<"d", "o", "w", "n", "s", "t", "r", "e", "a", "m">>, n) THEN "3' UTR"
       ELSE IF Contains(<<"u", "p", "s", "t", "r", "e", "a", "m">>, n) THEN "5' UTR"
       ELSE IF t \in NcRnaGeneTypes THEN "ncRNA"
       ELSE IF t = <<"p", "r", "o", "t", "e", "i", "n", "_", "c", "o", "d", "i", "n", "g">> THEN "CDS"
       ELSE IF t = <<"i", "n", "t", "e", "r", "g", "e", "n", "i", "c">> THEN "Intergenic"
       ELSE "Other"

ParseRegion(type_label, name_label) ==
    LET t == Lower(Str(type_label))
        n == Lower(Str(name_label))
    IN IF Contains(<<"u", "p", "s", "t", "r", "e", "a", "m">>, n) THEN "5' UTR"
       ELSE IF Contains(<<"d", "o", "w", "n", "s", "t", "r", "e", "a", "m">>, n) THEN "3' UTR"
       ELSE IF t \in NcRnaGeneTypes THEN "ncRNA"
       ELSE IF t = <<"p", "r", "o", "t", "e", "i", "n", "_", "c", "o", "d", "i", "n", "g">> THEN "CDS"
       ELSE IF t = <<"i", "n", "t", "e", "r", "g", "e", "n", "i", "c">> THEN "Intergenic"
       ELSE "Other"

(***************************************************************************)
(* Specification of the Taxonomy Mapper: one label (and, for parse_region, *)
(* one name) drawn from the labels below in any letter case with at most   *)
(* MaxUpper capitals, a second one that is the same text all in lower or   *)
(* all in upper case, and the mapper applied to both.                      *)
(***************************************************************************)
\* the sets of at most k positions of 1..n
RECURSIVE Masks(_, _)
Masks(n, k) ==
    IF k = 0 THEN {{}}
    ELSE LET prev == Masks(n, k - 1)
         IN prev \cup {m \cup {i} : m \in prev, i \in 1..n}

ApplyMask(s, m) == [i \in DOMAIN s |-> IF i \in m THEN UpperChar(s[i]) ELSE s[i]]

ConvertLabels ==
    { <<"p", "r", "o", "t", "e", "i", "n", "_", "c", "o", "d", "i", "n", "g">>,
      <<"r", "r", "n", "a", "_", "g", "e", "n", "e">>,
      <<"t", "r", "n", "a">>,
      <<"l", "i", "n", "c", "r", "n", "a">>,
      <<"p", "s", "e", "u", "d", "o", "g", "e", "n", "e">>,
      <<>>,
      <<" ">>,
      <<" ", "t", "r", "n", "a", " ">> }

ParseTypeLabels ==
    { <<"t", "r", "n", "a">>,
      <<"r", "r", "n", "a">>,
      <<"n", "c", "r", "n", "a">>,
      <<"n", "o", "n", "-", "c", "o", "d", "i", "n", "g">>,
      <<"p", "s", "e", "u", "d", "o", "g", "e", "n", "e">>,
      <<"p", "r", "o", "t", "e", "i", "n", "_", "c", "o", "d", "i", "n", "g">>,
      <<"i", "n", "t", "e", "r", "g", "e", "n", "i", "c">>,
      <<"m", "r", "n", "a">>,
      <<>> }

ParseNameLabels ==
    { <<"d", "n", "a", "a">>,
      <<"u", "p", "s", "t", "r", "e", "a", "m", "_", "d", "n", "a", "a">>,
      <<"d", "n", "a", "a", "_", "d", "o", "w", "n", "s", "t", "r", "e", "a", "m">>,
      <<"d", "o", "w", "n", "s", "t", "r", "e", "a", "m", "_", "u", "p", "s", "t", "r", "e", "a", "m">>,
      <<>> }

NullValues == {NaNVal, NoneVal}

ApplyConvert ==
    /\ pc = "tax_start"
    /\ mapper = "convert_gene_to_rna"
    /\ category' = ConvertGeneToRna(gene_type, "unknown")
    /\ category_alt' = ConvertGeneToRna(gene_type_alt, "unknown")
    /\ pc' = "tax_done"
    /\ UNCHANGED <<mapper, gene_type, gene_name, gene_type_alt, gene_name_alt>>
    /\ UNCHANGED notTax

ApplyParse ==
    /\ pc = "tax_start"
    /\ mapper = "parse_region"
    /\ category' = ParseRegion(gene_type, gene_name)
    /\ category_alt' = ParseRegion(gene_type_alt, gene_name_alt)
    /\ pc' = "tax_done"
    /\ UNCHANGED <<mapper, gene_type, gene_name, gene_type_alt, gene_name_alt>>
    /\ UNCHANGED notTax

\* the same text in another letter case
OtherCase(s) == {Lower(s), Upper(s)}

ConvertInput ==
    /\ mapper = "convert_gene_to_rna"
    /\ gene_name = NoneVal
    /\ gene_name_alt = NoneVal
    /\ \/ \E base \in ConvertLabels :
            /\ \E m \in Masks(Len(base), MaxUpper) : gene_type = StrVal(ApplyMask(base, m))
            /\ \E alt \in OtherCase(base) : gene_type_alt = StrVal(alt)
       \/ /\ gene_type \in NullValues \cup {NumVal(<<"7">>)}
          /\ gene_type_alt = gene_type

ParseInput ==
    /\ mapper = "parse_region"
    /\ \/ \E tb \in ParseTypeLabels, nb \in ParseNameLabels :
            /\ \E tm \in Masks(Len(tb), MaxUpper) :
                 \E nm \in Masks(Len(nb), MaxUpper - Cardinality(tm)) :
                    /\ gene_type = StrVal(ApplyMask(tb, tm))
                    /\ gene_name = StrVal(ApplyMask(nb, nm))
            /\ \/ gene_type_alt = StrVal(Lower(tb)) /\ gene_name_alt = StrVal(Lower(nb))
               \/ gene_type_alt = StrVal(Upper(tb)) /\ gene_name_alt = StrVal(Upper(nb))
       \/ /\ gene_type \in NullValues \cup {StrVal(<<"p", "r", "o", "t", "e", "i", "n", "_", "c", "o", "d", "i", "n", "g">>)}
          /\ gene_name \in NullValues \cup {StrVal(<<"u", "p", "s", "t", "r", "e", "a", "m">>)}
          /\ gene_type_alt = gene_type
          /\ gene_name_alt = gene_name

InitTaxonomy ==
    /\ pc = "tax_start"
    /\ ConvertInput \/ ParseInput
    /\ category = ""
    /\ category_alt = ""
    /\ RegionIdle
    /\ PlotIdle
    /\ GroupIdle
    /\ LoadIdle
    /\ MainIdle
    /\ SwapIdle
    /\ ProcessIdle

NextTaxonomy ==
    \/ ApplyConvert
    \/ ApplyParse

SpecTaxonomy == InitTaxonomy /\ [][NextTaxonomy]_vars

(***************************************************************************)
(* process_sites_file (lines 31-57) in front of the region scripts' main.  *)
(* A row is [Chr, Sites, rna_id, gene_type, gene_name]: rna_id is the cell *)
(* of rna_id_col, gene_type and gene_name the cells of the first           *)
(* *_Gene_Type and *_Gene_Name column.  An RNA id is a sequence of pieces. *)
(***************************************************************************)
\* rows of the two files together
MaxRows == 3

\* str(row.name): the row index, counted from 0
IndexStr(name) == <<"0", "1", "2", "3", "4", "5", "6", "7", "8", "9">>[name + 1]

\* site_id.split(':')[0]: the text before the first ':'
RECURSIVE SplitFirst(_)
SplitFirst(s) ==
    IF s = <<>> \/ Head(s) = ":" THEN <<>>
    ELSE <<Head(s)>> \o SplitFirst(Tail(s))

\* a slip: the site identifier itself is taken as the RNA id
FallbackRnaId_WholeSite(site_id, name) == site_id

\* site_id.split(':')[0] + '_RNA' + str(row.name)
FallbackRnaId(site_id, name) == SplitFirst(site_id) \o <<"_RNA">> \o <<IndexStr(name)>>

\* line 47
RowRnaId(row, site_id, name) ==
    IF ~IsNa(row.rna_id) THEN row.rna_id.text ELSE FallbackRnaId(site_id, name)

\* d[k] = v
DictSet(d, k, v) == [x \in DOMAIN d \cup {k} |-> IF x = k THEN v ELSE d[x]]

\* lines 44-55: the loop over the rows from row p on; acc is
\* [site_regions, site_to_rna]
RECURSIVE ProcessRows(_, _, _)
ProcessRows(rows, p, acc) ==
    IF p > Len(rows) THEN acc
    ELSE LET row == rows[p]
             site_id == SiteId(row.Chr, row.Sites)
             rna_id == RowRnaId(row, site_id, p - 1)
         IN IF ~IsNa(row.gene_type) /\ ~IsNa(row.gene_name)
            THEN ProcessRows(rows, p + 1,
                    [site_regions |-> DictSet(acc.site_regions, site_id,
                                              ParseRegion(row.gene_type, row.gene_name)),
                     site_to_rna |-> DictSet(acc.site_to_rna, site_id, rna_id)])
            ELSE ProcessRows(rows, p + 1, acc)

process_sites_file(rows) ==
    ProcessRows(rows, 1, [site_regions |-> <<>>, site_to_rna |-> <<>>])

\* lines 62-63
ProcessFiles ==
    /\ pc = "process_start"
    /\ sites_37_regions' = process_sites_file(file1_rows).site_regions
    /\ sites_37_rna' = process_sites_file(file1_rows).site_to_rna
    /\ sites_45_regions' = process_sites_file(file2_rows).site_regions
    /\ sites_45_rna' = process_sites_file(file2_rows).site_to_rna
    /\ pc' = "start"
    /\ UNCHANGED <<shared_rna, unique_rna_37, unique_rna_45, shared_site_37,
                   shared_site_45, shared_mod_sites, layer_counts, normalized>>
    /\ UNCHANGED <<plotVars, taxVars, groupVars, loadVars, mainVars, swapVars,
                   processVars>>

\* rows with a gene type and a gene name, with or without RNA id, and one
\* row without gene type, which the loop does not record
FileRows ==
    [Chr : {"c1", "c2"}, Sites : {"10"},
     rna_id : {NaNVal, StrVal(<<"T1">>)},
     gene_type : {StrVal(<<"p", "r", "o", "t", "e", "i", "n", "_", "c", "o", "d", "i", "n", "g">>)},
     gene_name : {StrVal(<<"d", "n", "a", "A">>)}]
      \cup [Chr : {"c1"}, Sites : {"20"},
            rna_id : {NaNVal, StrVal(<<"T1">>)},
            gene_type : {StrVal(<<"p", "r", "o", "t", "e", "i", "n", "_", "c", "o", "d", "i", "n", "g">>)},
            gene_name : {StrVal(<<"d", "n", "a", "A">>)}]
      \cup [Chr : {"c1"}, Sites : {"10"},
            rna_id : {NaNVal},
            gene_type : {NaNVal},
            gene_name : {StrVal(<<"d", "n", "a", "A">>)}]

RECURSIVE RowTables(_)
RowTables(n) ==
    IF n = 0 THEN {<<>>}
    ELSE LET prev == RowTables(n - 1)
         IN prev \cup {Append(t, row) : t \in {k \in prev : Len(k) = n - 1}, row \in FileRows}

InitProcess ==
    /\ pc = "process_start"
    /\ file1_rows \in RowTables(MaxRows)
    /\ file2_rows \in RowTables(MaxRows - Len(file1_rows))
    /\ RegionIdle
    /\ PlotIdle
    /\ TaxIdle
    /\ GroupIdle
    /\ LoadIdle
    /\ MainIdle
    /\ SwapIdle

NextProcess ==
    \/ ProcessFiles
    \/ ClassifyRna
    \/ FindSharedMod
    \/ CountLayers
    \/ Normalize

SpecProcess == InitProcess /\ [][NextProcess]_vars

(***************************************************************************)
(* Group Aggregator: grouping_rules and get_group_name                     *)
(* (group_proportion_style.py, lines 117-137).  A rule is                  *)
(* <<folder role, prefixes, target group>>.                                *)
(***************************************************************************)
ActualRules ==
    << <<"removed", <<<<"m", "6", "A", "_", "0", "3">>>>, "OD600=0.3(-rRNA)">>,
       <<"removed", <<<<"m", "6", "A", "_", "1">>>>, "OD600=1(-rRNA)">>,
       <<"total", <<<<"m", "6", "A", "_", "1">>, <<"m", "6", "A", "_", "2">>, <<"m", "6", "A", "_", "3">>, <<"m", "6", "A", "_", "4">>>>, "OD600=0.3">>,
       <<"total", <<<<"m", "6", "A", "_", "5">>, <<"m", "6", "A", "_", "6">>, <<"m", "6", "A", "_", "7">>, <<"m", "6", "A", "_", "8">>>>, "OD600=1">> >>

\* the same table edited so that rules of one role overlap: "m6A_03..."
\* matches the first and the second rule, "m6A_1..." the third and fourth
OverlappingRules ==
    << <<"removed", <<<<"m", "6", "A", "_", "0">>>>, "OD600=0.3(-rRNA)">>,
       <<"removed", <<<<"m", "6", "A", "_", "0", "3">>, <<"m", "6", "A", "_", "1">>>>, "OD600=1(-rRNA)">>,
       <<"total", <<<<"m", "6", "A", "_", "1">>>>, "OD600=0.3">>,
       <<"total", <<<<"m", "6", "A", "_", "5">>, <<"m", "6", "A", "_">>>>, "OD600=1">> >>

\* and with the rules of each role in the other order
ReorderedRules ==
    << OverlappingRules[4], OverlappingRules[3],
       OverlappingRules[2], OverlappingRules[1] >>

FolderTypes == {"total", "removed"}

\* any(file_name.startswith(prefix) for prefix in prefixes)
AnyPrefix(name, prefixes) ==
    \E i \in DOMAIN prefixes : StartsWith(name, prefixes[i])

\* a slip: the loop does not return at the first match, the last match wins
RECURSIVE GetGroupName_LastMatch(_, _, _)
GetGroupName_LastMatch(rules, name, role) ==
    IF rules = <<>> THEN "ValueError"
    ELSE LET r == rules[Len(rules)]
         IN IF r[1] = role /\ AnyPrefix(name, r[2]) THEN r[3]
            ELSE GetGroupName_LastMatch(SubSeq(rules, 1, Len(rules) - 1), name, role)

\* get_group_name(file_name, folder_type) over the rules in their order:
\* the target group, or "ValueError" when the loop ends without a return
RECURSIVE GetGroupName(_, _, _)
GetGroupName(rules, name, role) ==
    IF rules = <<>> THEN "ValueError"
    ELSE IF Head(rules)[1] = role /\ AnyPrefix(name, Head(rules)[2])
         THEN Head(rules)[3]
         ELSE GetGroupName(Tail(rules), name, role)

\* file stems given to get_group_name
GroupStems ==
    { <<"m", "6", "A", "_", "0", "3", "_", "r", "e", "p", "1">>,
      <<"m", "6", "A", "_", "1", "_", "r", "e", "p", "1">>,
      <<"m", "6", "A", "_", "1", "0", "_", "r", "e", "p", "1">>,
      <<"m", "6", "A", "_", "2", "_", "r", "e", "p", "1">>,
      <<"m", "6", "A", "_", "3">>,
      <<"m", "6", "A", "_", "4", "_", "r", "e", "p", "2">>,
      <<"m", "6", "A", "_", "5", "_", "r", "e", "p", "1">>,
      <<"m", "6", "A", "_", "6", "_", "r", "e", "p", "1">>,
      <<"m", "6", "A", "_", "7", "_", "r", "e", "p", "1">>,
      <<"m", "6", "A", "_", "8", "_", "r", "e", "p", "1">>,
      <<"m", "6", "A", "_", "9", "_", "r", "e", "p", "1">>,
      <<"m", "6", "A", "_", "0", "_", "r", "e", "p", "1">>,
      <<"m", "6", "A", "_">>,
      <<"M", "6", "A", "_", "1", "_", "r", "e", "p", "1">>,
      <<"r", "e", "p", "1", "_", "m", "6", "A", "_", "1">>,
      <<"i", "n", "p", "u", "t", "_", "r", "e", "p", "1">>,
      <<>> }

ApplyGetGroupName ==
    /\ pc = "group_start"
    /\ target_group' = GetGroupName(grouping_rules, file_name, folder_type)
    /\ pc' = "group_done"
    /\ UNCHANGED <<grouping_rules, file_name, folder_type>>
    /\ UNCHANGED notGroup

InitGroup ==
    /\ pc = "group_start"
    /\ grouping_rules \in {ActualRules, OverlappingRules, ReorderedRules}
    /\ file_name \in GroupStems
    /\ folder_type \in FolderTypes
    /\ target_group = ""
    /\ RegionIdle
    /\ PlotIdle
    /\ TaxIdle
    /\ LoadIdle
    /\ MainIdle
    /\ SwapIdle
    /\ ProcessIdle

NextGroup == ApplyGetGroupName

SpecGroup == InitGroup /\ [][NextGroup]_vars

(***************************************************************************)
(* Site Loader of the depletion scripts: load_samples of                   *)
(* group_proportion_style.py (lines 143-213, "grouped") and of             *)
(* FDR_proportion_plotting.py (lines 41-93, "FDR").  A file of the folder  *)
(* is [stem, readable, columns, rows]: rows is its Gene_Type column.       *)
(***************************************************************************)
column_mapping == <<"Sites", "Gene_Type">>

\* gene_type_to_rna of FDR_proportion_plotting.py (lines 21-27)
gene_type_to_rna_FDR ==
    { <<<<"p", "r", "o", "t", "e", "i", "n", "_", "c", "o", "d", "i", "n", "g">>, "mRNA">>,
      <<<<"i", "n", "t", "e", "r", "g", "e", "n", "i", "c">>, "ncRNA">>,
      <<<<"p", "s", "e", "u", "d", "o", "g", "e", "n", "e">>, "unaligned">>,
      <<<<"t", "R", "N", "A">>, "ncRNA">>,
      <<<<"r", "R", "N", "A", "_", "g", "e", "n", "e">>, "rRNA">> }

\* x in gene_type_to_rna.keys(), for a cell value
IsFdrKey(v) == v.kind = "str" /\ \E e \in gene_type_to_rna_FDR : e[1] = v.text

\* [col for col in column_mapping.keys() if col not in df.columns]
MissingCols(file) ==
    SelectSeq(column_mapping, LAMBDA col : col \notin file.columns)

RECURSIVE Flatten(_)
Flatten(seqs) == IF seqs = <<>> THEN <<>> ELSE Head(seqs) \o Flatten(Tail(seqs))

\* one row of a loaded frame: the file it comes from, its group, its raw
\* gene type and rna_type; rna_type "(raw)" stands for the raw label itself,
\* which FDR's gene_type_to_rna.get(x, x) leaves in place
Row(file, group, raw, rna) ==
    [file |-> file.stem, group |-> group, gene_type |-> raw, rna_type |-> rna]

\* lines 177-196: the frame of one file of the grouped variant
ConvertedRows(file, group) ==
    [i \in DOMAIN file.rows |->
        Row(file, group, file.rows[i], ConvertGeneToRna(file.rows[i], "unknown"))]

\* a slip: rows of the "unknown" category pass the filter
IsKept_KeepsUnknown(row) == row.rna_type \in KeptRnaTypes \cup {"unknown"}
IsKept(row) == row.rna_type \in KeptRnaTypes

GroupedFrame(file, group, include_unknown) ==
    LET converted == ConvertedRows(file, group)
        unknown_types == {converted[i].rna_type : i \in DOMAIN converted} \ KeptRnaTypes
    IN IF unknown_types # {} /\ ~include_unknown
       THEN SelectSeq(converted, IsKept)
       ELSE converted

\* lines 69-89: the frame of one file of the FDR variant
IsFdrRowKept(row) == IsFdrKey(row.gene_type)

FdrMap(v) == IF IsFdrKey(v) THEN DictGet(gene_type_to_rna_FDR, v.text, "(raw)") ELSE "(raw)"

FdrFrame(file, group, include_unknown) ==
    LET renamed == [i \in DOMAIN file.rows |-> Row(file, group, file.rows[i], "(raw)")]
        unknown_types == {file.rows[i] : i \in DOMAIN file.rows} \ {v \in Range(file.rows) : IsFdrKey(v)}
        kept == IF unknown_types # {} /\ ~include_unknown
                THEN SelectSeq(renamed, IsFdrRowKept)
                ELSE renamed
    IN [i \in DOMAIN kept |-> [kept[i] EXCEPT !.rna_type = FdrMap(kept[i].gene_type)]]

NoError == [type |-> "", what |-> "", file |-> <<>>, cols |-> <<>>]
Error(type, what, file, cols) == [type |-> type, what |-> what, file |-> file, cols |-> cols]

\* lines 144-152 (42-50): the folder checks and the glob
ListFiles ==
    /\ pc = "load_start"
    /\ IF folder = "missing"
       THEN /\ error' = Error("FileNotFoundError", "folder", <<>>, <<>>)
            /\ pc' = "load_raised"
       ELSE IF folder = "not_dir"
       THEN /\ error' = Error("NotADirectoryError", "folder", <<>>, <<>>)
            /\ pc' = "load_raised"
       ELSE IF files = <<>>
       THEN /\ error' = Error("ValueError", "no_files", <<>>, <<>>)
            /\ pc' = "load_raised"
       ELSE /\ error' = error
            /\ pc' = "load_loop"
    /\ UNCHANGED <<load_variant, INCLUDE_UNKNOWN_TYPES, folder, files, file_idx,
                   group_data, skipped, filter_log, final_df>>
    /\ UNCHANGED <<grouping_rules, file_name, folder_type, target_group>>
    /\ UNCHANGED notLoad

\* group_data[target_group].append(df_renamed), groups in insertion order
AppendToGroup(gd, group, frame) ==
    IF \E i \in DOMAIN gd : gd[i].group = group
    THEN [i \in DOMAIN gd |->
            IF gd[i].group = group
            THEN [gd[i] EXCEPT !.dfs = Append(@, frame)]
            ELSE gd[i]]
    ELSE Append(gd, [group |-> group, dfs |-> <<frame>>])

\* the filtered count a file's message reports (lines 187-188, 76-77)
LogFiltered(log, file, frame, include_unknown) ==
    IF Len(frame) < Len(file.rows) /\ ~include_unknown
    THEN Append(log, [file |-> file.stem, filtered_count |-> Len(file.rows) - Len(frame)])
    ELSE log

\* a slip: a file without a rule ends the run with the ValueError of
\* get_group_name instead of being skipped
LoadFileGrouped_Step_SkipRaises(file) ==
    IF GetGroupName(grouping_rules, file.stem, folder_type) = "ValueError"
    THEN [kind |-> "raise", error |-> Error("ValueError", "no_rule", file.stem, <<>>)]
    ELSE IF ~file.readable
    THEN [kind |-> "raise", error |-> Error("RuntimeError", "read", file.stem, <<>>)]
    ELSE IF MissingCols(file) # <<>>
    THEN [kind |-> "raise",
          error |-> Error("ValueError", "missing_columns", file.stem, MissingCols(file))]
    ELSE [kind |-> "load", error |-> NoError]

\* lines 160-175: what one pass of the loop does with a file, in the order
\* of the code: the rule first (skip), then the read, then the columns
LoadFileGrouped_Step(file) ==
    IF GetGroupName(grouping_rules, file.stem, folder_type) = "ValueError"
    THEN [kind |-> "skip", error |-> NoError]
    ELSE IF ~file.readable
    THEN [kind |-> "raise", error |-> Error("RuntimeError", "read", file.stem, <<>>)]
    ELSE IF MissingCols(file) # <<>>
    THEN [kind |-> "raise",
          error |-> Error("ValueError", "missing_columns", file.stem, MissingCols(file))]
    ELSE [kind |-> "load", error |-> NoError]

\* one pass of the loop of the grouped variant (lines 160-200)
LoadFileGrouped ==
    /\ pc = "load_loop"
    /\ load_variant = "grouped"
    /\ file_idx <= Len(files)
    /\ LET file == files[file_idx]
           step == LoadFileGrouped_Step(file)
           group == GetGroupName(grouping_rules, file.stem, folder_type)
           frame == GroupedFrame(file, group, INCLUDE_UNKNOWN_TYPES)
       IN /\ skipped' = IF step.kind = "skip" THEN Append(skipped, file.stem) ELSE skipped
          /\ error' = step.error
          /\ pc' = IF step.kind = "raise" THEN "load_raised" ELSE "load_loop"
          /\ file_idx' = IF step.kind = "raise" THEN file_idx ELSE file_idx + 1
          /\ group_data' = IF step.kind = "load"
                           THEN AppendToGroup(group_data, group, frame)
                           ELSE group_data
          /\ filter_log' = IF step.kind = "load"
                           THEN LogFiltered(filter_log, file, frame, INCLUDE_UNKNOWN_TYPES)
                           ELSE filter_log
    /\ UNCHANGED <<load_variant, INCLUDE_UNKNOWN_TYPES, folder, files, final_df>>
    /\ UNCHANGED <<grouping_rules, file_name, folder_type, target_group>>
    /\ UNCHANGED notLoad

\* a slip: a file that lacks a column is passed over instead of raising
LoadFileFDR_Step_SkipsBadColumns(file) ==
    IF ~file.readable
    THEN [kind |-> "raise", error |-> Error("RuntimeError", "read", file.stem, <<>>)]
    ELSE IF MissingCols(file) # <<>>
    THEN [kind |-> "skip", error |-> NoError]
    ELSE [kind |-> "load", error |-> NoError]

\* lines 57-67: the read, then the columns
LoadFileFDR_Step(file) ==
    IF ~file.readable
    THEN [kind |-> "raise", error |-> Error("RuntimeError", "read", file.stem, <<>>)]
    ELSE IF MissingCols(file) # <<>>
    THEN [kind |-> "raise",
          error |-> Error("ValueError", "missing_columns", file.stem, MissingCols(file))]
    ELSE [kind |-> "load", error |-> NoError]

\* one pass of the loop of the FDR variant (lines 57-89); all_samples is
\* kept as one group of group_data
LoadFileFDR ==
    /\ pc = "load_loop"
    /\ load_variant = "FDR"
    /\ file_idx <= Len(files)
    /\ LET file == files[file_idx]
           step == LoadFileFDR_Step(file)
           frame == FdrFrame(file, folder_type, INCLUDE_UNKNOWN_TYPES)
       IN /\ error' = step.error
          /\ pc' = IF step.kind = "raise" THEN "load_raised" ELSE "load_loop"
          /\ file_idx' = IF step.kind = "raise" THEN file_idx ELSE file_idx + 1
          /\ group_data' = IF step.kind = "load"
                           THEN AppendToGroup(group_data, folder_type, frame)
                           ELSE group_data
          /\ filter_log' = IF step.kind = "load"
                           THEN LogFiltered(filter_log, file, frame, INCLUDE_UNKNOWN_TYPES)
                           ELSE filter_log
    /\ UNCHANGED <<load_variant, INCLUDE_UNKNOWN_TYPES, folder, files, skipped, final_df>>
    /\ UNCHANGED <<grouping_rules, file_name, folder_type, target_group>>
    /\ UNCHANGED notLoad

\* lines 202-213 (91-93): the frames are concatenated group by group; the
\* grouped variant raises when no file was loaded
Concat ==
    /\ pc = "load_loop"
    /\ file_idx > Len(files)
    /\ IF group_data = <<>>
       THEN /\ error' = Error("ValueError", "no_valid_files", <<>>, <<>>)
            /\ pc' = "load_raised"
            /\ final_df' = final_df
       ELSE /\ final_df' = Flatten([i \in DOMAIN group_data |-> Flatten(group_data[i].dfs)])
            /\ pc' = "load_returned"
            /\ error' = error
    /\ UNCHANGED <<load_variant, INCLUDE_UNKNOWN_TYPES, folder, files, file_idx,
                   group_data, skipped, filter_log>>
    /\ UNCHANGED <<grouping_rules, file_name, folder_type, target_group>>
    /\ UNCHANGED notLoad

(***************************************************************************)
(* Specification of load_samples: a folder that is missing, not a folder,  *)
(* or holds up to MaxFiles files of the suffix, in the order of the glob.  *)
(***************************************************************************)
LoadStems ==
    { <<"m", "6", "A", "_", "0", "3", "_", "a">>,
      <<"m", "6", "A", "_", "1", "_", "a">>,
      <<"m", "6", "A", "_", "5", "_", "a">>,
      <<"c", "t", "r", "l", "_", "a">> }

RowChoices ==
    { <<StrVal(<<"p", "r", "o", "t", "e", "i", "n", "_", "c", "o", "d", "i", "n", "g">>)>>,
      <<StrVal(<<"P", "r", "o", "t", "e", "i", "n", "_", "C", "o", "d", "i", "n", "g">>), StrVal(<<"p", "s", "e", "u", "d", "o", "g", "e", "n", "e">>)>>,
      <<StrVal(<<"r", "R", "N", "A", "_", "g", "e", "n", "e">>), NaNVal>> }

FileStates ==
    [readable : {TRUE}, columns : {{"Sites", "Gene_Type"}}, rows : RowChoices]
      \cup [readable : {FALSE}, columns : {{"Sites", "Gene_Type"}}, rows : {<<>>}]
      \cup [readable : {TRUE}, columns : {{"Sites"}, {"Gene_Type"}, {}}, rows : {<<>>}]

File(stem, st) ==
    [stem |-> stem, readable |-> st.readable, columns |-> st.columns, rows |-> st.rows]

\* the listings of up to n files with different names
RECURSIVE Listings(_)
Listings(n) ==
    IF n = 0 THEN {<<>>}
    ELSE LET prev == Listings(n - 1)
         IN prev \cup
            {Append(l, File(stem, st)) :
                l \in {k \in prev : Len(k) = n - 1},
                stem \in LoadStems, st \in FileStates}

DistinctStems(l) == \A i, j \in DOMAIN l : i # j => l[i].stem # l[j].stem

InitLoad ==
    /\ pc = "load_start"
    /\ load_variant \in {"grouped", "FDR"}
    /\ INCLUDE_UNKNOWN_TYPES \in BOOLEAN
    /\ folder_type \in FolderTypes
    /\ \/ folder \in {"missing", "not_dir"} /\ files = <<>>
       \/ folder = "dir" /\ files \in {l \in Listings(MaxFiles) : DistinctStems(l)}
    /\ file_idx = 1
    /\ group_data = <<>>
    /\ skipped = <<>>
    /\ filter_log = <<>>
    /\ error = NoError
    /\ final_df = <<>>
    /\ grouping_rules = ActualRules
    /\ file_name = <<>>
    /\ target_group = ""
    /\ RegionIdle
    /\ PlotIdle
    /\ TaxIdle
    /\ MainIdle
    /\ SwapIdle
    /\ ProcessIdle

NextLoad ==
    \/ ListFiles
    \/ LoadFileGrouped
    \/ LoadFileFDR
    \/ Concat

SpecLoad == InitLoad /\ [][NextLoad]_vars

(***************************************************************************)
(* main of the two depletion scripts (group_proportion_style.py lines      *)
(* 332-357, FDR_proportion_plotting.py lines 164-183): load_samples of the *)
(* total folder, load_samples of the removed folder, the concatenation and *)
(* plot_rna_distribution, all inside one try whose except clause prints    *)
(* the error.  The two calls of load_samples are the actions of the Site   *)
(* Loader above.                                                           *)
(***************************************************************************)
\* files of the folders given to main
MaxMainFiles == 2

MainStems ==
    { <<"m", "6", "A", "_", "0", "3", "_", "a">>,
      <<"m", "6", "A", "_", "1", "_", "a">>,
      <<"c", "t", "r", "l", "_", "a">> }

MainFileStates ==
    { [readable |-> TRUE, columns |-> {"Sites", "Gene_Type"},
       rows |-> <<StrVal(<<"p", "r", "o", "t", "e", "i", "n", "_", "c", "o", "d", "i", "n", "g">>)>>],
      [readable |-> FALSE, columns |-> {"Sites", "Gene_Type"}, rows |-> <<>>],
      [readable |-> TRUE, columns |-> {"Sites"}, rows |-> <<>>] }

RECURSIVE MainListings(_)
MainListings(n) ==
    IF n = 0 THEN {<<>>}
    ELSE LET prev == MainListings(n - 1)
         IN prev \cup
            {Append(l, File(stem, st)) :
                l \in {k \in prev : Len(k) = n - 1},
                stem \in MainStems, st \in MainFileStates}

MainDirs ==
    {[folder |-> "missing", files |-> <<>>], [folder |-> "not_dir", files |-> <<>>]}
        \cup {[folder |-> "dir", files |-> l] :
                 l \in {k \in MainListings(MaxMainFiles) : DistinctStems(k)}}

\* the call load_samples(dir, folder_type): its locals start afresh
CallLoadSamples(dir, role) ==
    /\ folder' = dir.folder
    /\ files' = dir.files
    /\ folder_type' = role
    /\ file_idx' = 1
    /\ group_data' = <<>>
    /\ skipped' = <<>>
    /\ filter_log' = <<>>
    /\ error' = NoError
    /\ final_df' = <<>>
    /\ pc' = "load_start"

\* line 335 (167): total_rna_data = load_samples(total_rna_dir, "total")
MainLoadTotal ==
    /\ pc = "main_start"
    /\ CallLoadSamples(total_rna_dir, "total")
    /\ stages' = Append(stages, "load_total")
    /\ UNCHANGED <<total_rna_dir, remove_rna_dir, total_rna_data, remove_rna_data,
                   printed, chart_saved>>
    /\ UNCHANGED <<load_variant, INCLUDE_UNKNOWN_TYPES, grouping_rules, file_name,
                   target_group>>
    /\ UNCHANGED notMain

\* line 338 (170): the first call has returned, the second one starts
MainLoadRemoved ==
    /\ pc = "load_returned"
    /\ stages = <<"load_total">>
    /\ total_rna_data' = final_df
    /\ CallLoadSamples(remove_rna_dir, "removed")
    /\ stages' = Append(stages, "load_removed")
    /\ UNCHANGED <<total_rna_dir, remove_rna_dir, remove_rna_data, printed, chart_saved>>
    /\ UNCHANGED <<load_variant, INCLUDE_UNKNOWN_TYPES, grouping_rules, file_name,
                   target_group>>
    /\ UNCHANGED notMain

\* lines 340-354 (172-180): the second call has returned; the tables are
\* concatenated and plot_rna_distribution is called
MainRender ==
    /\ pc = "load_returned"
    /\ stages = <<"load_total", "load_removed">>
    /\ remove_rna_data' = final_df
    /\ stages' = Append(stages, "render")
    /\ pc' = "main_render"
    /\ UNCHANGED <<total_rna_dir, remove_rna_dir, total_rna_data, printed, chart_saved>>
    /\ UNCHANGED <<groupVars, loadVars>>
    /\ UNCHANGED notMain

\* a slip: the error is swallowed where it is raised and main goes on
OnRaise_Resumes(err) == [pc |-> "load_returned", printed |-> err]

\* lines 356-357 (182-183): except Exception as e: print(...), and main ends
OnRaise(err) == [pc |-> "main_failed", printed |-> err]

\* plot_rna_distribution (lines 219-326, 99-158) ends with savefig and
\* show, or raises before the chart is written
PlotRnaDistribution ==
    /\ pc = "main_render"
    /\ \/ /\ chart_saved' = TRUE
          /\ pc' = "main_done"
          /\ printed' = printed
       \/ /\ chart_saved' = chart_saved
          /\ pc' = "main_failed"
          /\ printed' = Error("Exception", "plot", <<>>, <<>>)
    /\ UNCHANGED <<total_rna_dir, remove_rna_dir, total_rna_data, remove_rna_data, stages>>
    /\ UNCHANGED <<groupVars, loadVars>>
    /\ UNCHANGED notMain

\* a call of load_samples has raised inside the try
MainExcept ==
    /\ pc = "load_raised"
    /\ stages # <<>>
    /\ pc' = OnRaise(error).pc
    /\ printed' = OnRaise(error).printed
    /\ UNCHANGED <<total_rna_dir, remove_rna_dir, total_rna_data, remove_rna_data,
                   stages, chart_saved>>
    /\ UNCHANGED <<groupVars, loadVars>>
    /\ UNCHANGED notMain

InitMain ==
    /\ pc = "main_start"
    /\ load_variant \in {"grouped", "FDR"}
    /\ INCLUDE_UNKNOWN_TYPES = FALSE
    /\ total_rna_dir \in MainDirs
    /\ remove_rna_dir \in MainDirs
    /\ total_rna_data = <<>>
    /\ remove_rna_data = <<>>
    /\ stages = <<>>
    /\ printed = NoError
    /\ chart_saved = FALSE
    /\ grouping_rules = ActualRules
    /\ file_name = <<>>
    /\ folder_type = ""
    /\ target_group = ""
    /\ folder = ""
    /\ files = <<>>
    /\ file_idx = 0
    /\ group_data = <<>>
    /\ skipped = <<>>
    /\ filter_log = <<>>
    /\ error = NoError
    /\ final_df = <<>>
    /\ RegionIdle
    /\ PlotIdle
    /\ TaxIdle
    /\ SwapIdle
    /\ ProcessIdle

NextMain ==
    \/ MainLoadTotal
    \/ ListFiles
    \/ LoadFileGrouped
    \/ LoadFileFDR
    \/ Concat
    \/ MainLoadRemoved
    \/ MainRender
    \/ PlotRnaDistribution
    \/ MainExcept

SpecMain == InitMain /\ [][NextMain]_vars

(***************************************************************************)
(* Properties of the Group Aggregator.                                     *)
(***************************************************************************)
IsPrefixOf(p, name) == Len(p) <= Len(name) /\ SubSeq(name, 1, Len(p)) = p

\* the rules of the given role one of whose prefixes starts the stem
MatchingRules(rules, name, role) ==
    {i \in DOMAIN rules :
        /\ rules[i][1] = role
        /\ \E j \in DOMAIN rules[i][2] : IsPrefixOf(rules[i][2][j], name)}

Min(S) == CHOOSE x \in S : \A y \in S : x <= y

\* C8: get_group_name returns the target group of the first rule, in the
\* order of grouping_rules, whose role is the folder role and one of whose
\* prefixes starts the stem: rules of the other role are never selected, the
\* earliest of several matching rules wins, and "m6A_03_rep1" with role
\* "removed" gives "OD600=0.3(-rRNA)".
C8_FirstMatchingRule ==
    pc = "group_done" =>
        LET M == MatchingRules(grouping_rules, file_name, folder_type)
        IN /\ M # {} => target_group = grouping_rules[Min(M)][3]
           /\ M = {} => target_group = "ValueError"
           /\ (grouping_rules = ActualRules /\ file_name = <<"m", "6", "A", "_", "0", "3", "_", "r", "e", "p", "1">>
                  /\ folder_type = "removed")
                 => target_group = "OD600=0.3(-rRNA)"

\* C8 witness: two rules of the folder role with different targets match the
\* stem, and the target of the earlier one has been returned.
C8_Witness ==
    /\ pc = "group_done"
    /\ \E i, j \in MatchingRules(grouping_rules, file_name, folder_type) :
          /\ i < j
          /\ grouping_rules[i][3] # grouping_rules[j][3]
          /\ target_group = grouping_rules[i][3]
    /\ \E k \in DOMAIN grouping_rules :
          /\ grouping_rules[k][1] # folder_type
          /\ k < Min(MatchingRules(grouping_rules, file_name, folder_type))
          /\ \E j \in DOMAIN grouping_rules[k][2] :
                IsPrefixOf(grouping_rules[k][2][j], file_name)

(***************************************************************************)
(* Properties of the Site Loader.                                          *)
(***************************************************************************)
LoadDone == pc \in {"load_returned", "load_raised"}

HasRule(file) == MatchingRules(grouping_rules, file.stem, folder_type) # {}
LacksColumn(file) == file.readable /\ ~({"Sites", "Gene_Type"} \subseteq file.columns)
Unloadable(file) == ~file.readable \/ LacksColumn(file)

\* the files the loop reads: every file in the FDR variant, the files with
\* a grouping rule in the grouped variant
ReadFiles == {i \in DOMAIN files : load_variant = "FDR" \/ HasRule(files[i])}

RowsFrom(file) == SelectSeq(final_df, LAMBDA row : row.file = file.stem)

\* the rows of a file the grouped loader retains
RetainedCount(file) ==
    Cardinality({k \in DOMAIN file.rows :
        INCLUDE_UNKNOWN_TYPES
            \/ ConvertGeneToRna(file.rows[k], "unknown") \in {"mRNA", "ncRNA", "rRNA"}})

\* a grouped run in which a file is skipped and nothing else can fail
SkipCase ==
    /\ LoadDone
    /\ load_variant = "grouped"
    /\ folder = "dir"
    /\ \E i \in DOMAIN files : ~HasRule(files[i])
    /\ \A i \in DOMAIN files : HasRule(files[i]) => ~Unloadable(files[i])

SkippedFilesLeftOut ==
    \A i \in DOMAIN files :
        ~HasRule(files[i]) =>
            /\ \E k \in DOMAIN skipped : skipped[k] = files[i].stem
            /\ RowsFrom(files[i]) = <<>>

MatchedFilesReturned ==
    /\ pc = "load_returned"
    /\ \A i \in DOMAIN files :
          HasRule(files[i]) => Len(RowsFrom(files[i])) = RetainedCount(files[i])

\* C9 as stated: a file that matches no grouping rule is skipped with a
\* warning and contributes no rows, and for every set of files the run goes
\* on and load_samples returns the rows of the remaining files rather than
\* raising.
C9_SkipNeverFatal ==
    SkipCase => (SkippedFilesLeftOut /\ MatchedFilesReturned)

\* C9 as amended: a file that matches no grouping rule is skipped with a
\* warning and contributes no rows; load_samples then returns the rows of
\* the files that match a rule when there is at least one, and raises
\* ValueError (no valid file) when every file of the folder was skipped.
C9_SkipFatalOnlyWhenNothingLeft ==
    SkipCase =>
        /\ SkippedFilesLeftOut
        /\ (\E i \in DOMAIN files : HasRule(files[i])) => MatchedFilesReturned
        /\ (\A i \in DOMAIN files : ~HasRule(files[i])) =>
              /\ pc = "load_raised"
              /\ error.type = "ValueError"
              /\ error.what = "no_valid_files"

\* C9 witness: load_samples has returned the rows of a matching file after
\* skipping another one.
C9_Witness ==
    /\ pc = "load_returned"
    /\ load_variant = "grouped"
    /\ skipped # <<>>
    /\ final_df # <<>>
    /\ \E i \in DOMAIN files : HasRule(files[i]) /\ RowsFrom(files[i]) # <<>>

\* the missing columns of a file, in the order of column_mapping
ExpectedMissing(file) ==
    IF file.columns = {} THEN <<"Sites", "Gene_Type">>
    ELSE IF "Sites" \notin file.columns THEN <<"Sites">>
    ELSE <<"Gene_Type">>

\* C10 as stated: in both scripts every file of the folder that lacks a
\* required column makes load_samples fail; such a file is never skipped and
\* no table is returned.  (Read in the claim's favour: that an error is
\* raised at all, whichever file it names.)
C10_MissingColumnAlwaysFails ==
    (LoadDone /\ folder = "dir" /\ \E i \in DOMAIN files : LacksColumn(files[i]))
        => pc = "load_raised"

\* C10 as amended: load_samples returns no table when a file it reads lacks
\* a required column: it stops at the first file, in folder order, that it
\* cannot read (RuntimeError naming the file) or that lacks a column
\* (ValueError naming the file and the missing columns).  The FDR script
\* reads every file; the grouped script reads the files that match a
\* grouping rule, and a file that matches none is skipped before it is
\* read, whatever its columns.
C10_ReadFileMissingColumnFails ==
    (LoadDone /\ folder = "dir" /\ files # <<>>) =>
        LET Bad == {i \in ReadFiles : Unloadable(files[i])}
        IN /\ (\E i \in ReadFiles : LacksColumn(files[i])) => pc = "load_raised"
           /\ Bad # {} =>
                LET f == files[Min(Bad)]
                IN /\ pc = "load_raised"
                   /\ error.file = f.stem
                   /\ IF f.readable
                      THEN /\ error.type = "ValueError"
                           /\ error.what = "missing_columns"
                           /\ error.cols = ExpectedMissing(f)
                      ELSE error.type = "RuntimeError"
           /\ (Bad = {} /\ ReadFiles # {}) => pc = "load_returned"
           /\ pc = "load_returned" =>
                \A i \in DOMAIN files :
                    i \notin ReadFiles =>
                        /\ \E k \in DOMAIN skipped : skipped[k] = files[i].stem
                        /\ RowsFrom(files[i]) = <<>>

\* C10 witness: after loading one file, load_samples has raised the
\* ValueError that names the next file and its two missing columns.
C10_Witness ==
    /\ pc = "load_raised"
    /\ group_data # <<>>
    /\ error.type = "ValueError"
    /\ error.what = "missing_columns"
    /\ error.cols = <<"Sites", "Gene_Type">>
    /\ \E i \in DOMAIN files : files[i].stem = error.file /\ files[i].columns = {}

(***************************************************************************)
(* Properties of main of the depletion scripts.                            *)
(***************************************************************************)
\* the folder is one load_samples returns a table for: it exists, holds
\* files, the loop reads at least one of them, and every file it reads is
\* readable and has the two columns
LoadSucceeds(dir, role) ==
    /\ dir.folder = "dir"
    /\ dir.files # <<>>
    /\ LET read == {i \in DOMAIN dir.files :
                       \/ load_variant = "FDR"
                       \/ MatchingRules(grouping_rules, dir.files[i].stem, role) # {}}
       IN /\ read # {}
          /\ \A i \in read :
                /\ dir.files[i].readable
                /\ {"Sites", "Gene_Type"} \subseteq dir.files[i].columns

MainEnded == pc \in {"main_done", "main_failed"}

\* C11: main runs load total, load removed, render in this order; the
\* renderer is entered only after both loads have returned; when a load
\* raises (missing folder, no matching file, read failure, missing column)
\* the error is printed, no later stage is entered and no chart is written.
C11_StagesInOrderStopAtError ==
    /\ stages \in {<<>>, <<"load_total">>, <<"load_total", "load_removed">>,
                   <<"load_total", "load_removed", "render">>}
    /\ Len(stages) = 3 =>
          /\ LoadSucceeds(total_rna_dir, "total")
          /\ LoadSucceeds(remove_rna_dir, "removed")
    /\ chart_saved => (Len(stages) = 3 /\ pc = "main_done" /\ printed = NoError)
    /\ pc = "main_failed" => (printed # NoError /\ ~chart_saved)
    /\ ~LoadSucceeds(total_rna_dir, "total") =>
          /\ Len(stages) <= 1
          /\ MainEnded => (pc = "main_failed" /\ printed = error /\ stages = <<"load_total">>)
    /\ (LoadSucceeds(total_rna_dir, "total") /\ ~LoadSucceeds(remove_rna_dir, "removed")) =>
          /\ Len(stages) <= 2
          /\ MainEnded =>
                (pc = "main_failed" /\ printed = error
                    /\ stages = <<"load_total", "load_removed">>)

\* C11 witness: the total folder was loaded, the removed folder raised on a
\* missing column; the error is printed and main has ended without a chart.
C11_Witness ==
    /\ pc = "main_failed"
    /\ stages = <<"load_total", "load_removed">>
    /\ total_rna_data # <<>>
    /\ printed.what = "missing_columns"
    /\ ~chart_saved

(***************************************************************************)
(* Properties of the Taxonomy Mapper.                                      *)
(***************************************************************************)
RnaCategories == {"mRNA", "ncRNA", "rRNA", "unknown"}
RegionCategories == {"5' UTR", "3' UTR", "ncRNA", "CDS", "Intergenic", "Other"}

\* two characters that are the same, or the two cases of one letter
SameLetter(c, d) ==
    \/ c = d
    \/ \E j \in DOMAIN LowerLetters : {c, d} = {LowerLetters[j], UpperLetters[j]}

\* two strings that differ only in letter case
EqualsIgnoringCase(a, b) ==
    /\ Len(a) = Len(b)
    /\ \A i \in DOMAIN a : SameLetter(a[i], b[i])

\* two cell values that differ only in letter case
DifferOnlyInCase(v, w) ==
    /\ v.kind = w.kind
    /\ EqualsIgnoringCase(v.text, w.text)

\* C6: convert_gene_to_rna and parse_region are total and case-insensitive:
\* for every string label, the empty string and a null value included, they
\* return one category of their fixed set without failing, and two labels
\* that differ only in letter case get the same category ("Protein_Coding"
\* gives mRNA, resp. CDS).
C6_MapperTotalCaseInsensitive ==
    pc = "tax_done" =>
        /\ (mapper = "convert_gene_to_rna" /\ gene_type.kind \in {"str", "nan", "none"})
              => category \in RnaCategories
        /\ mapper = "parse_region" => category \in RegionCategories
        /\ (gene_type.kind # "num"
              /\ DifferOnlyInCase(gene_type, gene_type_alt)
              /\ DifferOnlyInCase(gene_name, gene_name_alt))
              => category = category_alt
        /\ gene_type = StrVal(<<"P", "r", "o", "t", "e", "i", "n", "_", "C", "o", "d", "i", "n", "g">>) =>
              /\ mapper = "convert_gene_to_rna" => category = "mRNA"
              /\ (mapper = "parse_region" /\ gene_name = StrVal(<<"d", "n", "a", "a">>))
                    => category = "CDS"

\* C6 witness: convert_gene_to_rna has mapped "Protein_Coding" and
\* "protein_coding" to mRNA.
C6_Witness ==
    /\ pc = "tax_done"
    /\ mapper = "convert_gene_to_rna"
    /\ gene_type = StrVal(<<"P", "r", "o", "t", "e", "i", "n", "_", "C", "o", "d", "i", "n", "g">>)
    /\ gene_type_alt = StrVal(<<"p", "r", "o", "t", "e", "i", "n", "_", "c", "o", "d", "i", "n", "g">>)
    /\ category = "mRNA"
    /\ category_alt = "mRNA"

\* pattern occurs in s, letter case ignored
ContainsIgnoringCase(pattern, s) ==
    \E k \in 0..(Len(s) - Len(pattern)) :
        \A i \in DOMAIN pattern : SameLetter(s[k + i], pattern[i])

\* the priority order of parse_region, written as a table
ExpectedRegion(type_label, name_label) ==
    CASE ContainsIgnoringCase(<<"u", "p", "s", "t", "r", "e", "a", "m">>, Str(name_label)) -> "5' UTR"
      [] /\ ~ContainsIgnoringCase(<<"u", "p", "s", "t", "r", "e", "a", "m">>, Str(name_label))
         /\ ContainsIgnoringCase(<<"d", "o", "w", "n", "s", "t", "r", "e", "a", "m">>, Str(name_label)) -> "3' UTR"
      [] OTHER ->
            IF \E t \in {<<"t", "R", "N", "A">>, <<"r", "R", "N", "A">>, <<"n", "c", "R", "N", "A">>, <<"n", "o", "n", "-", "c", "o", "d", "i", "n", "g">>, <<"p", "s", "e", "u", "d", "o", "g", "e", "n", "e">>} :
                  EqualsIgnoringCase(t, Str(type_label))
            THEN "ncRNA"
            ELSE IF EqualsIgnoringCase(<<"p", "r", "o", "t", "e", "i", "n", "_", "c", "o", "d", "i", "n", "g">>, Str(type_label)) THEN "CDS"
            ELSE IF EqualsIgnoringCase(<<"i", "n", "t", "e", "r", "g", "e", "n", "i", "c">>, Str(type_label)) THEN "Intergenic"
            ELSE "Other"

\* C7: parse_region resolves in a fixed priority order: a name containing
\* "upstream" gives 5' UTR whatever the type is (also when it contains
\* "downstream" too); otherwise a name containing "downstream" gives 3' UTR
\* whatever the type is; only otherwise the type decides: tRNA, rRNA, ncRNA,
\* non-coding, pseudogene give ncRNA, protein_coding CDS, intergenic
\* Intergenic, anything else Other (labels compared without letter case).
C7_ParseRegionPriority ==
    (pc = "tax_done" /\ mapper = "parse_region") =>
        /\ category = ExpectedRegion(gene_type, gene_name)
        /\ category_alt = ExpectedRegion(gene_type_alt, gene_name_alt)

\* C7 witness: a name with "downstream" before "upstream" on a
\* protein_coding gene has been resolved to 5' UTR.
C7_Witness ==
    /\ pc = "tax_done"
    /\ mapper = "parse_region"
    /\ gene_type = StrVal(<<"p", "r", "o", "t", "e", "i", "n", "_", "c", "o", "d", "i", "n", "g">>)
    /\ gene_name = StrVal(<<"d", "o", "w", "n", "s", "t", "r", "e", "a", "m", "_", "u", "p", "s", "t", "r", "e", "a", "m">>)
    /\ category = "5' UTR"

(***************************************************************************)
(* Properties of the Normalizer.                                           *)
(***************************************************************************)
\* the percentages of f over keys are defined and sum to 100 (each is a
\* fraction whose denominator is total, or the 0 a missing cell is filled with)
SumsTo100(f, keys, total) ==
    /\ \A k \in keys : ~f[k].nan /\ total % f[k].den = 0
    /\ SumOver([k \in keys |-> f[k].num * (total \div f[k].den)], keys) = 100 * total

C5_RegionPart ==
    pc = "normalized" =>
        \A idx \in DOMAIN region_order :
            LET total == RegionTotal(layer_counts, idx)
                row == [l \in Layers |-> normalized[l][idx]]
            IN IF total # 0
               THEN SumsTo100(row, Layers, total)
               ELSE \A l \in Layers : row[l] = FracZero

C5_DepletionPart ==
    pc = "reindexed" =>
        \A i \in DOMAIN group_order :
            LET g == group_order[i]
                total == GroupTotal(all_data, g)
            IN IF total # 0
               THEN SumsTo100(pivot_data[g], DOMAIN pivot_data[g], total)
               ELSE \A t \in DOMAIN pivot_data[g] : pivot_data[g][t] = FracZero

\* C5: for every grouping key of the Normalizer output (every region of
\* region_order, every group of group_order) the percentages sum to 100 when
\* the key's total count is nonzero, and every percentage is exactly 0,
\* never undefined or missing, when it is zero.
C5_NormalizerOutput == C5_RegionPart /\ C5_DepletionPart

(***************************************************************************)
(* Properties of the Set Reconciler.                                       *)
(***************************************************************************)
Counted == pc \in {"counted", "normalized"}
Matched == pc \in {"matched", "counted", "normalized"}
Classified == pc \in {"classified", "matched", "counted", "normalized"}

\* the site identifiers that carry a region in condition A or in condition B
SitesCarrying(region) ==
    {s \in DOMAIN sites_37_regions : sites_37_regions[s] = region}
        \cup {s \in DOMAIN sites_45_regions : sites_45_regions[s] = region}

\* C1: for every region of region_order whose total is nonzero, the five
\* stratum counts sum to the number of distinct site identifiers that carry
\* the region in condition A or in condition B (nothing counted twice,
\* nothing lost).
C1_StrataSumToSiteCount ==
    Counted =>
        \A idx \in DOMAIN region_order :
            RegionTotal(layer_counts, idx) # 0 =>
                RegionTotal(layer_counts, idx)
                    = Cardinality(SitesCarrying(region_order[idx]))

\* the declarative reading of "shared modification site", written without
\* the loop: a site of one condition on a shared transcript that has, in the
\* other condition, a site on a shared transcript with the identical
\* position string and the identical category
OnSharedRna37(s) == s \in DOMAIN sites_37_regions /\ sites_37_rna[s] \in rna_37 \cap rna_45
OnSharedRna45(s) == s \in DOMAIN sites_45_regions /\ sites_45_rna[s] \in rna_37 \cap rna_45
PositionOf(s) == s[Len(s)]

HasPartnerIn45(s) ==
    /\ OnSharedRna37(s)
    /\ \E t \in DOMAIN sites_45_regions :
          /\ OnSharedRna45(t)
          /\ PositionOf(t) = PositionOf(s)
          /\ sites_45_regions[t] = sites_37_regions[s]

HasPartnerIn37(s) ==
    /\ OnSharedRna45(s)
    /\ \E t \in DOMAIN sites_37_regions :
          /\ OnSharedRna37(t)
          /\ PositionOf(t) = PositionOf(s)
          /\ sites_37_regions[t] = sites_45_regions[s]

C3_StrataExclusive ==
    Counted =>
        \A idx \in DOMAIN region_order :
            \A l1, l2 \in Layers :
                l1 # l2 =>
                    StratumSites(l1, region_order[idx])
                        \cap StratumSites(l2, region_order[idx]) = {}

\* C3 read per site record instead of per identifier: no site of condition A
\* is counted both in an A-side stratum and in shared. This fails too: a site
\* of A on a transcript unique to A is counted in mod_unique37 and, when B
\* has the same identifier among its matched sites, in shared again.
C3_RecordsExclusive ==
    Counted =>
        \A idx \in DOMAIN region_order :
            /\ mod_unique37_sites(region_order[idx])
                  \cap shared_sites(region_order[idx]) = {}
            /\ mod_unique37_sites(region_order[idx])
                  \cap unique_37_sites(region_order[idx]) = {}
            /\ unique_37_sites(region_order[idx])
                  \cap shared_sites(region_order[idx]) = {}

\* C4: shared_rna, unique_rna_37 and unique_rna_45 are pairwise disjoint and
\* their union is the set of parent transcripts the sites of A or B refer to.
C4_RnaPartition ==
    Classified =>
        /\ shared_rna \cap unique_rna_37 = {}
        /\ shared_rna \cap unique_rna_45 = {}
        /\ unique_rna_37 \cap unique_rna_45 = {}
        /\ shared_rna \cup unique_rna_37 \cup unique_rna_45
              = {sites_37_rna[s] : s \in DOMAIN sites_37_rna}
                  \cup {sites_45_rna[s] : s \in DOMAIN sites_45_rna}

\* C4 witness: the classification has run on tables that share a transcript
\* and have a transcript of one condition only.
C4_Witness ==
    /\ pc = "classified"
    /\ shared_rna # {}
    /\ unique_rna_37 \cup unique_rna_45 # {}
    /\ Cardinality(rna_37 \cup rna_45) >= 2

(***************************************************************************)
(* Properties of the row filter of load_samples.                           *)
(***************************************************************************)
GeneTypesOf(frame) == [k \in DOMAIN frame |-> frame[k].gene_type]

HasKnownCategory(v) == ConvertGeneToRna(v, "unknown") \in {"mRNA", "ncRNA", "rRNA"}

\* the label is a key of the grouped script's dictionary, whatever its case
\* and the blanks around it
IsMappedLabel(v) ==
    /\ v.kind = "str"
    /\ \E e \in gene_type_to_rna : EqualsIgnoringCase(e[1], Strip(v.text))

ReportedCounts(file) ==
    {filter_log[k].filtered_count :
        k \in {j \in DOMAIN filter_log : filter_log[j].file = file.stem}}

\* C12: for every file the grouped load_samples has loaded: with unknown
\* categories disallowed, the rows dropped are exactly those whose converted
\* category is not mRNA, ncRNA or rRNA, the count reported for the file is
\* its original rows minus its retained rows, and every retained row has
\* rna_type mRNA, ncRNA or rRNA; with unknown categories allowed no row is
\* dropped and an unmapped row has rna_type "unknown".
C12_FilterDropsExactlyUnknown ==
    (pc = "load_returned" /\ load_variant = "grouped") =>
        \A i \in DOMAIN files :
            HasRule(files[i]) =>
                LET f == files[i]
                    got == RowsFrom(f)
                IN IF ~INCLUDE_UNKNOWN_TYPES
                   THEN /\ GeneTypesOf(got) = SelectSeq(f.rows, HasKnownCategory)
                        /\ \A k \in DOMAIN got : got[k].rna_type \in {"mRNA", "ncRNA", "rRNA"}
                        /\ ReportedCounts(f) \subseteq {Len(f.rows) - Len(got)}
                        /\ Len(got) < Len(f.rows) => ReportedCounts(f) # {}
                   ELSE /\ GeneTypesOf(got) = f.rows
                        /\ ReportedCounts(f) = {}
                        /\ \A k \in DOMAIN got :
                              IF IsMappedLabel(f.rows[k])
                              THEN got[k].rna_type \in {"mRNA", "ncRNA", "rRNA"}
                              ELSE got[k].rna_type = "unknown"

\* C12 witness: a file of two rows has been loaded with unknown categories
\* disallowed; one row was dropped, one retained, and the count 1 reported.
C12_Witness ==
    /\ pc = "load_returned"
    /\ load_variant = "grouped"
    /\ ~INCLUDE_UNKNOWN_TYPES
    /\ \E i \in DOMAIN files :
          /\ Len(files[i].rows) = 2
          /\ Len(RowsFrom(files[i])) = 1
          /\ ReportedCounts(files[i]) = {1}

\* the dictionary the loader of the variant resolves categories with
LoaderTable == IF load_variant = "FDR" THEN gene_type_to_rna_FDR ELSE gene_type_to_rna

\* C13: in both depletion loaders category resolution is case-insensitive:
\* a row whose label differs only in letter case from a mapped label is
\* retained with the category of the mapped label ("Protein_Coding" gives
\* mRNA), and a retained row with an unmapped label has the category
\* "unknown", not its raw text.
C13_LoaderCaseInsensitive ==
    pc = "load_returned" =>
        \A i \in ReadFiles :
            LET f == files[i]
                got == RowsFrom(f)
            IN /\ \A k \in DOMAIN f.rows :
                     \A e \in LoaderTable :
                        (f.rows[k].kind = "str" /\ EqualsIgnoringCase(e[1], f.rows[k].text))
                            => \E j \in DOMAIN got :
                                  got[j].gene_type = f.rows[k] /\ got[j].rna_type = e[2]
               /\ \A j \in DOMAIN got :
                     (~\E e \in LoaderTable :
                          /\ got[j].gene_type.kind = "str"
                          /\ EqualsIgnoringCase(e[1], got[j].gene_type.text))
                        => got[j].rna_type = "unknown"

\* the same statement for the grouped script alone
C13_GroupedPart ==
    load_variant = "grouped" => C13_LoaderCaseInsensitive

(***************************************************************************)
(* Properties of the shared modification sites and of the exchange of the  *)
(* two inputs.                                                             *)
(***************************************************************************)
\* C14: every pair (s37, s45) the loop adds to shared_mod_sites lies on one
\* parent RNA: the RNA of s37 in file1 is the RNA of s45 in file2.
C14_SharedPairOnSameRna ==
    pc = "matched" =>
        \A s37 \in shared_site_37 :
            \A s45 \in shared_site_45 :
                SiteMatch(s37, s45) => sites_37_rna[s37] = sites_45_rna[s45]

\* the five counts of one region, read with the conditions exchanged
Mirror(lc) ==
    [layer \in Layers |->
        CASE layer = "mod_unique37" -> lc["mod_unique45"]
          [] layer = "mod_unique45" -> lc["mod_unique37"]
          [] layer = "unique_37"    -> lc["unique_45"]
          [] layer = "unique_45"    -> lc["unique_37"]
          [] layer = "shared"       -> lc["shared"]]

SecondRunCounted == swapped /\ pc \in {"counted", "normalized"}

\* C15: with the two inputs exchanged the counts are mirrored: mod_unique37
\* and mod_unique45 change places, unique_37 and unique_45 change places,
\* and the shared counts stay as they were, in every region.
C15_SwapMirrorsCounts ==
    SecondRunCounted => layer_counts = Mirror(first_counts)

\* the part of C15 about the four strata that are not "shared"
C15_UniqueStrataMirror ==
    SecondRunCounted =>
        \A layer \in Layers \ {"shared"} : layer_counts[layer] = Mirror(first_counts)[layer]

(***************************************************************************)
(* Properties of the sites of category "Other".                            *)
(***************************************************************************)
CountedRegions == Range(region_order)

\* the site identifiers a stratum counts in some region
CountedIn(layer) == UNION {StratumSites(layer, region) : region \in CountedRegions}

OtherSites37 == {s \in DOMAIN sites_37_regions : sites_37_regions[s] = "Other"}
OtherSites45 == {s \in DOMAIN sites_45_regions : sites_45_regions[s] = "Other"}

Processed == pc \in {"start", "classified", "matched", "counted", "normalized"}

\* row p of the table lacks an RNA id, is recorded (it has a gene type and a
\* gene name) and no later recorded row of the table has its site id
FallbackRow(rows, p) ==
    /\ IsNa(rows[p].rna_id)
    /\ ~IsNa(rows[p].gene_type) /\ ~IsNa(rows[p].gene_name)
    /\ \A q \in DOMAIN rows :
          (q > p /\ ~IsNa(rows[q].gene_type) /\ ~IsNa(rows[q].gene_name))
              => SiteId(rows[q].Chr, rows[q].Sites) # SiteId(rows[p].Chr, rows[p].Sites)

IdOfRow37(p) == sites_37_rna[SiteId(file1_rows[p].Chr, file1_rows[p].Sites)]
IdOfRow45(p) == sites_45_rna[SiteId(file2_rows[p].Chr, file2_rows[p].Sites)]

\* C17: the fallback RNA id of a row without RNA id depends on the row's
\* chromosome and row index only, not on the file: two such rows, one in
\* each file, with the same chromosome and the same row index get equal
\* ids, and the Set Reconciler classifies that RNA as shared.
C17_FallbackIdIgnoresFile ==
    Processed =>
        /\ \A p \in DOMAIN file1_rows :
              FallbackRow(file1_rows, p) =>
                  IdOfRow37(p) = <<file1_rows[p].Chr, "_RNA", IndexStr(p - 1)>>
        /\ \A p \in DOMAIN file2_rows :
              FallbackRow(file2_rows, p) =>
                  IdOfRow45(p) = <<file2_rows[p].Chr, "_RNA", IndexStr(p - 1)>>
        /\ \A p \in DOMAIN file1_rows \cap DOMAIN file2_rows :
              (FallbackRow(file1_rows, p) /\ FallbackRow(file2_rows, p)
                  /\ file1_rows[p].Chr = file2_rows[p].Chr)
                => /\ IdOfRow37(p) = IdOfRow45(p)
                   /\ pc # "start" =>
                         /\ IdOfRow37(p) \in shared_rna
                         /\ IdOfRow37(p) \notin unique_rna_37 \cup unique_rna_45

\* C17 witness: the first rows of the two files lack an RNA id and are two
\* different sites of chromosome c1; both got the id c1_RNA0 and the Set
\* Reconciler has classified it as shared.
C17_Witness ==
    /\ pc = "classified"
    /\ Len(file1_rows) >= 1 /\ Len(file2_rows) >= 1
    /\ FallbackRow(file1_rows, 1) /\ FallbackRow(file2_rows, 1)
    /\ file1_rows[1].Chr = "c1" /\ file2_rows[1].Chr = "c1"
    /\ file1_rows[1].Sites # file2_rows[1].Sites
    /\ <<"c1", "_RNA", "0">> \in shared_rna

====
